---- MODULE Spec2Model ----
(***************************************************************************)
(* Model of pygimli/physics/traveltime/plotting.py.                        *)
(*                                                                         *)
(* The module is a set of independent drawing functions.  Each call reads  *)
(* a data container (sensor positions, columns 's', 'g', 't') and issues   *)
(* drawing calls on an axes object.  The model records the data container  *)
(* the call was made on, the arguments, the position inside the function   *)
(* and the sequence of drawing calls issued so far.                        *)
(*                                                                         *)
(* Numbers.  Coordinates are integers (metres).  Traveltimes are integers  *)
(* in units of 1e-11 s, so that the threshold 1e-10 is the integer Eps and *)
(* positive values below the threshold exist.  A quotient a / b is kept as *)
(* the pair <<a, b>>; b = 0 stands for the division by zero.               *)
(***************************************************************************)
EXTENDS Integers, Sequences, FiniteSets

VARIABLES
    data,      \* the data container the running call was given
    fn,        \* entry point of the running call ("none" before a call)
    args,      \* its arguments
    pc,        \* position inside the call: "idle", a loop label, "done", "failed"
    i,         \* loop counter of the running loop (1-based)
    loc,       \* the locals of the running call
    calls,     \* drawing calls issued on the axes, in order
    lookups,   \* sensor-coordinate lookups made: <<what, raw index, index used>>
    notices,   \* messages issued through pg.deprecated / pg.error / print
    axprops,   \* axes properties set by the call (labels, grid, show ...)
    ret        \* value returned by the call

vars == <<data, fn, args, pc, i, loc, calls, lookups, notices, axprops, ret>>

---------------------------------------------------------------------------
(* Bounds of the model *)

\* largest number of records of a data container / rows of a line file
MaxRec == 2
\* number of sensors of a data container
NSensors == 2
\* largest number of shots of the one-record-per-shot containers
MaxShots == 11

(* Program constants *)

\* 1e-10 s in units of 1e-11 s
Eps == 10
\* number of rows taken from the tab10 palette
NColours == 10
\* step between tick labels in drawVA
TickStep == 50

---------------------------------------------------------------------------
(* Sequences and numbers *)

Range(q) == {q[k] : k \in 1..Len(q)}

MinOf(S) == CHOOSE m \in S : \A e \in S : m <= e
MaxOf(S) == CHOOSE m \in S : \A e \in S : m >= e

Abs(a) == IF a < 0 THEN -a ELSE a

\* integer square root of a perfect square
ISqrt(n) == CHOOSE r \in 0..n : r * r = n

\* a / b as an unreduced quotient
Quot(a, b) == <<a, b>>

RECURSIVE SortedSeq(_)
\* the elements of a finite set of integers in ascending order
SortedSeq(S) ==
    IF S = {} THEN <<>>
    ELSE LET m == MinOf(S) IN <<m>> \o SortedSeq(S \ {m})

\* q[idx[1]], q[idx[2]], ... (fancy indexing with 1-based positions)
Take(q, idx) == [k \in 1..Len(idx) |-> q[idx[k]]]

\* positions k (ascending) with q[k] = v; pg.find / boolean-mask selection
Find(q, v) == SortedSeq({k \in 1..Len(q) : q[k] = v})

NonDecreasing(q) == \A k \in 1..(Len(q) - 1) : q[k] <= q[k + 1]

\* all sequences over S of length 1..n
SeqsUpTo(S, n) == UNION {[1..k -> S] : k \in 1..n}

---------------------------------------------------------------------------
(* The data container *)

\* an absent optional argument (None) and a given one
None == [given |-> FALSE, val |-> <<>>]
Some(v) == [given |-> TRUE, val |-> v]

\* sensor positions <<x, z>> that data containers are built from; all
\* mutual distances are integral
Points == {<<0, 0>>, <<3, 0>>, <<3, 4>>}

\* sensor layouts: NSensors sensors at pairwise different positions
Layouts == {p \in [1..NSensors -> Points] : \A a, b \in 1..NSensors : p[a] = p[b] => a = b}

\* a traveltime column of n records: pairwise different values above the
\* threshold, except that record low (if any) holds a value below it
TimeColumn(n, low) == [k \in 1..n |-> IF k = low THEN Eps \div 2 ELSE 2 * Eps * k]

\* an override array of n values, different from every traveltime column
OtherColumn(n, low) == [k \in 1..n |-> IF k = low THEN Eps \div 2 - 1 ELSE 2 * Eps * k + Eps]

DataContainer(p, sg, tcol) ==
    [pos |-> p,
     s |-> [k \in 1..Len(sg) |-> sg[k][1]],
     g |-> [k \in 1..Len(sg) |-> sg[k][2]],
     t |-> tcol]

\* containers whose indices are all 0-based (base = 0) or all 1-based
\* (base = 1), with 1..MaxRec records
BasedData(base, lows) ==
    {DataContainer(p, sg, TimeColumn(Len(sg), low)) :
        p \in Layouts,
        sg \in SeqsUpTo((base..(NSensors - 1 + base)) \X (base..(NSensors - 1 + base)), MaxRec),
        low \in lows}

EmptyData == [pos |-> <<>>, s |-> <<>>, g |-> <<>>, t |-> <<>>]

\* data.size() and data.sensorCount()
Size(d) == Len(d.s)
SensorCount(d) == Len(d.pos)

\* pg.x(data): the x-coordinates of the sensors
PX(d) == [k \in 1..Len(d.pos) |-> d.pos[k][1]]

\* x[idx] for a 0-based index
At(x, idx) == x[idx + 1]

InRange(idx, n) == 0 <= idx /\ idx < n

\* pg.unique(pg.sort(col)): the distinct values in ascending order
Unique(col) == SortedSeq(Range(col))

NoAxProps == [xlabel |-> "", ylabel |-> "", grid |-> FALSE, shown |-> FALSE,
              inverted |-> FALSE, xlim |-> <<>>, ymax |-> <<>>, ticks |-> <<>>]

Init ==
    /\ data = EmptyData
    /\ fn = "none"
    /\ args = [none |-> TRUE]
    /\ pc = "idle"
    /\ i = 0
    /\ loc = [none |-> TRUE]
    /\ calls = <<>>
    /\ lookups = {}
    /\ notices = <<>>
    /\ axprops = NoAxProps
    /\ ret = <<>>

---------------------------------------------------------------------------
(* drawTravelTimeData(ax, data, t=None) *)

TTData == BasedData(0, {0}) \cup BasedData(1, {0})

\* a variant of the heuristic that looks at the shot indices only
StartOffsetShotsOnly(shots, geoph) ==
    IF MinOf(Range(shots)) = 1 THEN 1 ELSE 0

\* the index-base heuristic of lines 26-29
StartOffsetIDX(shots, geoph) ==
    IF MinOf({MinOf(Range(shots)), MinOf(Range(geoph))}) = 1 THEN 1 ELSE 0

\* int(i__ - startOffsetIDX) for i__ in col
SensorIdx(col, off) == [k \in 1..Len(col) |-> col[k] - off]

\* the lookups x[sensorIdx] of one plot call
LookupsOf(what, raw, used) == {<<what, raw[k], used[k]>> : k \in 1..Len(raw)}

AllInRange(idx, n) == \A k \in 1..Len(idx) : InRange(idx[k], n)

CallDrawTravelTimeData ==
    /\ pc = "idle"
    /\ \E d \in TTData, given \in BOOLEAN :
        LET t == IF given THEN Some(OtherColumn(Size(d), 0)) ELSE None
            x == PX(d)
            shots == Unique(d.s)
            geoph == Unique(d.g)
            tShow == IF t.given THEN t.val ELSE d.t
        IN /\ data' = d
           /\ fn' = "drawTravelTimeData"
           /\ args' = [t |-> t]
           /\ loc' = [x |-> x, shots |-> shots, geoph |-> geoph,
                      startOffsetIDX |-> StartOffsetIDX(shots, geoph),
                      tShow |-> tShow]
           /\ axprops' = [axprops EXCEPT !.xlim = <<MinOf(Range(x)), MaxOf(Range(x))>>,
                                         !.ymax = <<MaxOf(Range(tShow))>>,
                                         !.shown = TRUE]
    /\ pc' = "ttd_lines"
    /\ i' = 1
    /\ UNCHANGED <<calls, lookups, notices, ret>>

\* one iteration of the loop of lines 39-42
TtdLine ==
    /\ pc = "ttd_lines"
    /\ i <= Len(loc.shots)
    /\ LET shot == loc.shots[i]
           gIdx == Find(data.s, shot)
           raw == Take(data.g, gIdx)
           sensorIdx == SensorIdx(raw, loc.startOffsetIDX)
       IN /\ lookups' = lookups \cup LookupsOf("line", raw, sensorIdx)
          /\ IF AllInRange(sensorIdx, Len(loc.x))
             THEN /\ calls' = Append(calls,
                        [kind |-> "line", x |-> [k \in 1..Len(sensorIdx) |-> At(loc.x, sensorIdx[k])],
                         y |-> Take(loc.tShow, gIdx), fmt |-> "x-", rec |-> gIdx])
                  /\ i' = i + 1
                  /\ UNCHANGED <<pc, notices>>
             ELSE /\ pc' = "failed"
                  /\ notices' = Append(notices, "index out of range")
                  /\ UNCHANGED <<calls, i>>
    /\ UNCHANGED <<data, fn, args, loc, axprops, ret>>

\* the shot markers of lines 50-51
TtdShotMarkers ==
    /\ pc = "ttd_lines"
    /\ i > Len(loc.shots)
    /\ LET sensorIdx == SensorIdx(loc.shots, loc.startOffsetIDX)
       IN /\ lookups' = lookups \cup LookupsOf("shot", loc.shots, sensorIdx)
          /\ IF AllInRange(sensorIdx, Len(loc.x))
             THEN /\ calls' = Append(calls,
                        [kind |-> "shots", x |-> [k \in 1..Len(sensorIdx) |-> At(loc.x, sensorIdx[k])],
                         y |-> [k \in 1..Len(sensorIdx) |-> 8], fmt |-> "gv", rec |-> <<>>])
                  /\ pc' = "ttd_geoph"
                  /\ UNCHANGED notices
             ELSE /\ pc' = "failed"
                  /\ notices' = Append(notices, "index out of range")
                  /\ UNCHANGED calls
    /\ UNCHANGED <<data, fn, args, i, loc, axprops, ret>>

\* the receiver markers of lines 54-55 and the axes decoration of lines 57-62
TtdGeophMarkers ==
    /\ pc = "ttd_geoph"
    /\ LET sensorIdx == SensorIdx(loc.geoph, loc.startOffsetIDX)
       IN /\ lookups' = lookups \cup LookupsOf("geoph", loc.geoph, sensorIdx)
          /\ IF AllInRange(sensorIdx, Len(loc.x))
             THEN /\ calls' = Append(calls,
                        [kind |-> "geoph", x |-> [k \in 1..Len(sensorIdx) |-> At(loc.x, sensorIdx[k])],
                         y |-> [k \in 1..Len(sensorIdx) |-> 3], fmt |-> "r^", rec |-> <<>>])
                  /\ axprops' = [axprops EXCEPT !.grid = TRUE,
                                                !.xlabel = "x-Coordinate [m]",
                                                !.ylabel = "Traveltime [ms]"]
                  /\ pc' = "done"
                  /\ UNCHANGED notices
             ELSE /\ pc' = "failed"
                  /\ notices' = Append(notices, "index out of range")
                  /\ UNCHANGED <<calls, axprops>>
    /\ UNCHANGED <<data, fn, args, i, loc, ret>>

---------------------------------------------------------------------------
(* plotFirstPicks(ax, data, tt=None, plotva=False, marker='x-')            *)
(* drawFirstPicks(ax, data, tt=None, plotva=False, **kwargs)               *)

\* one record per shot: k shots on a line of k sensors, 3 m apart, listed
\* from the last sensor to the first; the receiver is the next sensor
ShotLine(k, rev) ==
    [pos |-> [j \in 1..k |-> <<3 * (IF rev THEN k - j ELSE j - 1), 0>>],
     s |-> [j \in 1..k |-> k - j],
     g |-> [j \in 1..k |-> (k - j + 1) % k],
     t |-> TimeColumn(k, 0)]

FPData == BasedData(0, {0}) \cup {ShotLine(k, rev) : k \in 1..MaxShots, rev \in BOOLEAN}

\* keyword arguments: "" stands for a keyword that was not passed
NoKwargs == [marker |-> "", markersize |-> "", linestyle |-> ""]

\* kwargs.setdefault(key, value)
SetDefault(kw, key, value) == IF kw[key] = "" THEN [kw EXCEPT ![key] = value] ELSE kw

\* lines 85-87
StyleDefaults(kw) ==
    SetDefault(SetDefault(SetDefault(kw, "marker", "x"), "markersize", "8"), "linestyle", "-")

\* px[int(k)] for k in col
Coords(px, col) == [k \in 1..Len(col) |-> At(px, col[k])]

\* np.absolute(gx - sx) / tt
VaOfPicks(gx, sx, tt) == [k \in 1..Len(tt) |-> Quot(Abs(gx[k] - sx[k]), tt[k])]

Perms(n) == {p \in [1..n -> 1..n] : \A a, b \in 1..n : p[a] = p[b] => a = b}

\* a variant of argsort that leaves the order as it is
ArgSortsUnsorted(gi) == {[k \in 1..Len(gi) |-> k]}

\* gi.argsort(): a permutation that puts gi in ascending order; the order
\* of equal elements is not specified
ArgSorts(gi) == {p \in Perms(Len(gi)) : NonDecreasing(Take(gi, p))}

\* a variant that indexes the palette without wrapping around
ColNoWrap(k) == k

\* index of the palette row used for the i-th (0-based) group: cols[i % 10]
Col(k) == k % NColours

\* the two plot calls of one loop iteration (lines 89-93); i0 is the
\* 0-based loop index, rec the data records drawn by the curve
CurveCalls(i0, si, sx, gx, tt, ii, kw) ==
    LET sel == Find(sx, si)
        ti == Take(tt, sel)
        gi == Take(gx, sel)
    IN <<[kind |-> "curve", x |-> Take(gi, ii), y |-> Take(ti, ii), fmt |-> "",
          color |-> Col(i0), marker |-> kw.marker, markersize |-> kw.markersize,
          linestyle |-> kw.linestyle, rec |-> Take(sel, ii)],
         [kind |-> "shotmark", x |-> <<si>>, y |-> <<0>>, fmt |-> "s",
          color |-> Col(i0), marker |-> "", markersize |-> "",
          linestyle |-> "", rec |-> <<>>]>>

\* lines 74-87 of drawFirstPicks, entered from entry point f
EnterDrawFirstPicks(f, d, a, kwargs) ==
    LET px == PX(d)
        gx == Coords(px, d.g)
        sx == Coords(px, d.s)
        tt0 == IF a.tt.given THEN a.tt.val ELSE d.t
        tt == IF a.plotva THEN VaOfPicks(gx, sx, tt0) ELSE tt0
    IN /\ data' = d
       /\ fn' = f
       /\ args' = a
       /\ loc' = [px |-> px, gx |-> gx, sx |-> sx, tt |-> tt, uns |-> Unique(sx),
                  kwargs |-> StyleDefaults(kwargs)]
       /\ pc' = "dfp_loop"
       /\ i' = 1
       /\ UNCHANGED <<calls, lookups, axprops, ret>>

FPArgs(d) ==
    {[tt |-> tt, plotva |-> plotva] :
        tt \in {None, Some(OtherColumn(Size(d), 0))}, plotva \in BOOLEAN}

\* plotFirstPicks with its default marker, or with marker given
CallPlotFirstPicks ==
    /\ pc = "idle"
    /\ \E d \in FPData, marker \in {"x-", "o"} :
        \E a \in FPArgs(d) :
            /\ notices' = Append(notices, "deprecated: use drawFirstPicks")
            /\ EnterDrawFirstPicks("plotFirstPicks", d,
                   [tt |-> a.tt, plotva |-> a.plotva, marker |-> marker],
                   [NoKwargs EXCEPT !.marker = marker])

\* drawFirstPicks called directly, without keyword arguments
CallDrawFirstPicks ==
    /\ pc = "idle"
    /\ \E d \in FPData, marker \in {""} :
        \E a \in FPArgs(d) :
            /\ UNCHANGED notices
            /\ EnterDrawFirstPicks("drawFirstPicks", d,
                   [tt |-> a.tt, plotva |-> a.plotva, marker |-> marker],
                   [NoKwargs EXCEPT !.marker = marker])

\* one iteration of the loop of lines 88-93
DfpCurve ==
    /\ pc = "dfp_loop"
    /\ i <= Len(loc.uns)
    /\ LET si == loc.uns[i]
       IN \E ii \in ArgSorts(Take(loc.gx, Find(loc.sx, si))) :
            calls' = calls \o CurveCalls(i - 1, si, loc.sx, loc.gx, loc.tt, ii, loc.kwargs)
    /\ i' = i + 1
    /\ UNCHANGED <<data, fn, args, pc, loc, lookups, notices, axprops, ret>>

\* lines 95-102
DfpFinish ==
    /\ pc = "dfp_loop"
    /\ i > Len(loc.uns)
    /\ axprops' = [axprops EXCEPT !.grid = TRUE,
                                  !.ylabel = IF args.plotva THEN "Apparent velocity (m/s)"
                                             ELSE "Traveltime (s)",
                                  !.xlabel = "x (m)",
                                  !.inverted = ~axprops.inverted]
    /\ pc' = "done"
    /\ UNCHANGED <<data, fn, args, i, loc, calls, lookups, notices, ret>>

---------------------------------------------------------------------------
(* shotReceiverDistances (pygimli/physics/traveltime/utils.py), pg.error   *)

\* Euclidean distance of two sensor positions
Dist(p, q) == ISqrt((p[1] - q[1]) * (p[1] - q[1]) + (p[2] - q[2]) * (p[2] - q[2]))

\* distance between shot and receiver of every record: the full distance,
\* or the distance along x only
ShotReceiverDistances(d, full) ==
    [k \in 1..Size(d) |->
        IF full THEN Dist(d.pos[d.s[k] + 1], d.pos[d.g[k] + 1])
        ELSE Abs(d.pos[d.s[k] + 1][1] - d.pos[d.g[k] + 1][1])]

\* pg.error(msg): the message is reported and an error condition is raised
PgError(n, msg) == [notices |-> Append(n, msg), raised |-> TRUE]

---------------------------------------------------------------------------
(* _getOffset(data, full=False) *)

Call_getOffset ==
    /\ pc = "idle"
    /\ \E d \in BasedData(0, {0}), full \in BOOLEAN :
        /\ data' = d
        /\ args' = [full |-> full]
        /\ ret' = ShotReceiverDistances(d, full)
    /\ fn' = "_getOffset"
    /\ notices' = Append(notices, "deprecated: use shotReceiverDistances")
    /\ pc' = "done"
    /\ UNCHANGED <<i, loc, calls, lookups, axprops>>

---------------------------------------------------------------------------
(* drawVA(ax, data, vals=None, usePos=True, pseudosection=False)           *)

\* containers in which no traveltime, or the one of the first or of the
\* last record, is below the threshold
VAData == BasedData(0, {0, 1, MaxRec})

\* the values of the vals argument: None, the name of a column, an array
ValsArgs(d) ==
    {[kind |-> "none", val |-> <<>>], [kind |-> "str", val |-> <<>>]}
        \cup {[kind |-> "array", val |-> OtherColumn(Size(d), low)] : low \in {0, 1}}

\* lines 147-151
ResolveVals(d, vals) == IF vals.kind = "array" THEN vals.val ELSE d.t

\* a variant of the test that accepts every positive traveltime
NonPositiveTraveltimes(vals) == MinOf(Range(vals)) <= 0

\* the test of line 159
ZeroTraveltimes(vals) == MinOf(Range(vals)) < Eps

\* a variant with the operands of the division exchanged
InverseVelocity(offset, vals) == [k \in 1..Len(offset) |-> Quot(vals[k], offset[k])]

\* line 162: offset / vals
ApparentVelocity(offset, vals) == [k \in 1..Len(offset) |-> Quot(offset[k], vals[k])]

\* (gx + sx) / 2
Midpoint(gx, sx) == [k \in 1..Len(gx) |-> Quot(gx[k] + sx[k], 2)]

\* the drawVecMatrix call of lines 164-172
VecMatrixCall(pseudosection, gx, sx, offset, va) ==
    IF pseudosection
    THEN [kind |-> "vecmatrix", x |-> Midpoint(gx, sx), y |-> offset, v |-> va,
          kw |-> "queeze", mode |-> "pseudosection"]
    ELSE [kind |-> "vecmatrix", x |-> gx, y |-> sx, v |-> va,
          kw |-> "squeeze", mode |-> "matrix"]

\* np.arange(0, n, TickStep)
Ticks(n) == [k \in 1..((n + TickStep - 1) \div TickStep) |-> (k - 1) * TickStep]

\* lines 147-157
CallDrawVA ==
    /\ pc = "idle"
    /\ \E d \in VAData, usePos \in BOOLEAN, pseudosection \in BOOLEAN :
        \E v \in ValsArgs(d) :
            LET px == PX(d)
            IN /\ data' = d
               /\ args' = [vals |-> v, usePos |-> usePos, pseudosection |-> pseudosection]
               /\ loc' = [vals |-> ResolveVals(d, v), px |-> px,
                          gx |-> Coords(px, d.g), sx |-> Coords(px, d.s),
                          offset |-> ShotReceiverDistances(d, TRUE), va |-> <<>>]
    /\ fn' = "drawVA"
    /\ pc' = "va_check"
    /\ UNCHANGED <<i, calls, lookups, notices, axprops, ret>>

\* lines 159-161
VaCheck ==
    /\ pc = "va_check"
    /\ IF ZeroTraveltimes(loc.vals)
       THEN LET e == PgError(Append(notices, "print(vals)"), "error: zero traveltimes found.")
            IN /\ notices' = e.notices
               /\ pc' = IF e.raised THEN "failed" ELSE "va_divide"
       ELSE /\ pc' = "va_divide"
            /\ UNCHANGED notices
    /\ UNCHANGED <<data, fn, args, i, loc, calls, lookups, axprops, ret>>

\* lines 162-187
VaDraw ==
    /\ pc = "va_divide"
    /\ LET va == ApparentVelocity(loc.offset, loc.vals)
       IN /\ loc' = [loc EXCEPT !.va = va]
          /\ calls' = Append(calls, VecMatrixCall(args.pseudosection, loc.gx, loc.sx, loc.offset, va))
    /\ axprops' = IF args.usePos
                  THEN [axprops EXCEPT !.ticks = Coords(loc.px, Ticks(SensorCount(data)))]
                  ELSE axprops
    /\ ret' = <<"gci">>
    /\ pc' = "done"
    /\ UNCHANGED <<data, fn, args, i, lookups, notices>>

---------------------------------------------------------------------------
(* plotLines(ax, line_filename, step=1) *)

\* largest number of rows of a line file
MaxRows == 3

\* the rows of a line file of n rows, such as [[0,0],[1,1],[2,0]]
FileRows(n) == [k \in 1..n |-> <<k - 1, (k - 1) % 2>>]

\* np.loadtxt(line_filename): axes of length one are squeezed, so that an
\* empty file gives an empty 1-d array and a file of one row the 1-d
\* array of its two columns
LoadTxt(rows) ==
    IF Len(rows) = 0 THEN [ndim |-> 1, shape0 |-> 0, rows |-> rows]
    ELSE IF Len(rows) = 1 THEN [ndim |-> 1, shape0 |-> 2, rows |-> rows]
    ELSE [ndim |-> 2, shape0 |-> Len(rows), rows |-> rows]

\* a variant of the slice that is empty when fewer than step rows are left
ChunkFullOnly(rows, i0, step) ==
    IF i0 + step <= Len(rows) THEN [k \in 1..step |-> rows[i0 + k]] ELSE <<>>

\* xz[i0:i0 + step] for a 0-based i0: a slice is cut at the end of the array
Chunk(rows, i0, step) ==
    [k \in 1..(MinOf({i0 + step, Len(rows)}) - i0) |-> rows[i0 + k]]

\* ax.plot(x, z, 'k-') of the given rows
LineCall(rows) ==
    [kind |-> "plot", x |-> [k \in 1..Len(rows) |-> rows[k][1]],
     y |-> [k \in 1..Len(rows) |-> rows[k][2]], fmt |-> "k-"]

\* lines 191-192
CallPlotLines ==
    /\ pc = "idle"
    /\ \E n \in 0..MaxRows, step \in 1..3 :
        /\ args' = [step |-> step, rows |-> FileRows(n)]
        /\ loc' = [xz |-> LoadTxt(FileRows(n)), n_points |-> LoadTxt(FileRows(n)).shape0]
    /\ fn' = "plotLines"
    /\ pc' = "pl_body"
    /\ i' = 0
    /\ UNCHANGED <<data, calls, lookups, notices, axprops, ret>>

\* one iteration of the loop of lines 194-197 (i is the 0-based row index)
PlSegment ==
    /\ pc = "pl_body"
    /\ args.step = 2
    /\ i < loc.n_points
    /\ IF loc.xz.ndim = 2
       THEN /\ calls' = Append(calls, LineCall(Chunk(loc.xz.rows, i, args.step)))
            /\ i' = i + args.step
            /\ UNCHANGED <<pc, notices>>
       ELSE /\ pc' = "failed"
            /\ notices' = Append(notices, "too many indices for array")
            /\ UNCHANGED <<calls, i>>
    /\ UNCHANGED <<data, fn, args, loc, lookups, axprops, ret>>

\* lines 198-199
PlWhole ==
    /\ pc = "pl_body"
    /\ args.step = 1
    /\ IF loc.xz.ndim = 2
       THEN /\ calls' = Append(calls, LineCall(loc.xz.rows))
            /\ pc' = "done"
            /\ UNCHANGED notices
       ELSE /\ pc' = "failed"
            /\ notices' = Append(notices, "too many indices for array")
            /\ UNCHANGED calls
    /\ UNCHANGED <<data, fn, args, i, loc, lookups, axprops, ret>>

\* the end of the function when step is 2 and the loop is over, or when
\* step is neither 1 nor 2
PlReturn ==
    /\ pc = "pl_body"
    /\ \/ args.step = 2 /\ i >= loc.n_points
       \/ args.step \notin {1, 2}
    /\ pc' = "done"
    /\ UNCHANGED <<data, fn, args, i, loc, calls, lookups, notices, axprops, ret>>

---------------------------------------------------------------------------

Next ==
    \/ CallDrawTravelTimeData
    \/ TtdLine
    \/ TtdShotMarkers
    \/ TtdGeophMarkers
    \/ CallPlotFirstPicks
    \/ CallDrawFirstPicks
    \/ DfpCurve
    \/ DfpFinish
    \/ Call_getOffset
    \/ CallDrawVA
    \/ VaCheck
    \/ VaDraw
    \/ CallPlotLines
    \/ PlSegment
    \/ PlWhole
    \/ PlReturn

Spec == Init /\ [][Next]_vars

---------------------------------------------------------------------------
(* Properties of drawTravelTimeData *)

InTTD == fn = "drawTravelTimeData"

\* the minimum over all shot and receiver indices of a container
MinIndex(d) == MinOf(Range(d.s) \cup Range(d.g))

RawOf(what) == {l[2] : l \in {m \in lookups : m[1] = what}}

IsLine(c) == c.kind = "line"

Lines == SelectSeq(calls, IsLine)

\* C2: in drawTravelTimeData, when the minimum over all shot and receiver
\* indices is 1, every index has exactly 1 subtracted before it is used to
\* look up a sensor x-coordinate; when it is 0, every index is used as it
\* is; the receivers of the lines, the shot markers and the receiver
\* markers use the same offset within one call, and the coordinates drawn
\* are those of the sensors so addressed.
C2_UniformIndexOffset ==
    InTTD =>
        /\ \A l \in lookups :
            /\ MinIndex(data) = 1 => l[3] = l[2] - 1
            /\ MinIndex(data) = 0 => l[3] = l[2]
        /\ \A l1, l2 \in lookups : l1[2] - l1[3] = l2[2] - l2[3]
        /\ \A j \in 1..Len(Lines) : \A k \in 1..Len(Lines[j].x) :
            MinIndex(data) \in {0, 1} =>
                Lines[j].x[k] = PX(data)[data.g[Lines[j].rec[k]] - MinIndex(data) + 1]
        /\ pc = "done" =>
            /\ RawOf("line") = Range(data.g)
            /\ RawOf("shot") = Range(data.s)
            /\ RawOf("geoph") = Range(data.g)

\* a call on 1-based data has drawn its lines and both marker rows
C2_Witness ==
    /\ InTTD
    /\ pc = "done"
    /\ MinIndex(data) = 1
    /\ Len(calls) >= 3
    /\ \E l \in lookups : l[1] = "shot" /\ l[3] = l[2] - 1

AllZeroBased(d) == \A v \in Range(d.s) \cup Range(d.g) : 0 <= v /\ v < SensorCount(d)
AllOneBased(d) == \A v \in Range(d.s) \cup Range(d.g) : 1 <= v /\ v <= SensorCount(d)

\* C9: for a container whose indices are all 0-based or all 1-based, every
\* index drawTravelTimeData uses to look up a sensor coordinate lies in
\* [0, sensorCount), also when no record references sensor 1.
C9_IndicesInRange ==
    (InTTD /\ (AllZeroBased(data) \/ AllOneBased(data))) =>
        \A l \in lookups : InRange(l[3], SensorCount(data))

\* C7: drawTravelTimeData draws exactly one line per distinct shot index,
\* the line holds exactly the records of that shot, and its points are in
\* ascending order of receiver x-coordinate whatever the order of the
\* records in the container.
C7_OneSortedLinePerShot ==
    (InTTD /\ pc = "done") =>
        /\ Len(Lines) = Cardinality(Range(data.s))
        /\ \A j \in 1..Len(Lines) :
            /\ \E sh \in Range(data.s) :
                Range(Lines[j].rec) = {k \in 1..Size(data) : data.s[k] = sh}
            /\ Len(Lines[j].rec) = Cardinality(Range(Lines[j].rec))
            /\ NonDecreasing(Lines[j].x)

---------------------------------------------------------------------------
(* Properties of drawFirstPicks and of the deprecated aliases *)

InFP == fn \in {"plotFirstPicks", "drawFirstPicks"}

IsCurve(c) == c.kind = "curve"

Curves == SelectSeq(calls, IsCurve)

\* x-coordinate of the receiver and of the shot of record k (0-based
\* indices, as drawFirstPicks reads them)
ReceiverX(k) == PX(data)[data.g[k] + 1]
ShotX(k) == PX(data)[data.s[k] + 1]

\* the traveltime, or with plotva the apparent velocity, of record k
PickValue(k) ==
    LET t0 == IF args.tt.given THEN args.tt.val[k] ELSE data.t[k]
    IN IF args.plotva THEN <<Abs(ReceiverX(k) - ShotX(k)), t0>> ELSE t0

\* C3: in drawFirstPicks, two records with the same shot index are points
\* of the same curve (one plot call, one colour); within every curve the
\* points are in ascending order of receiver x-coordinate, and every
\* receiver coordinate is paired with the traveltime (or apparent
\* velocity) of its own record.
C3_SameShotSameSortedCurve ==
    InFP =>
        /\ \A j \in 1..Len(Curves) :
            LET c == Curves[j]
            IN /\ NonDecreasing(c.x)
               /\ Len(c.x) = Len(c.rec) /\ Len(c.y) = Len(c.rec)
               /\ \A k \in 1..Len(c.rec) :
                    /\ c.x[k] = ReceiverX(c.rec[k])
                    /\ c.y[k] = PickValue(c.rec[k])
        /\ pc = "done" =>
            \A a, b \in 1..Size(data) :
                data.s[a] = data.s[b] =>
                    /\ \E j \in 1..Len(Curves) : {a, b} \subseteq Range(Curves[j].rec)
                    /\ \A j \in 1..Len(Curves) :
                        a \in Range(Curves[j].rec) <=> b \in Range(Curves[j].rec)

\* a finished call has drawn a curve of two records of one shot whose
\* order in the container was reversed by the sort
C3_Witness ==
    /\ InFP
    /\ pc = "done"
    /\ \E j \in 1..Len(Curves) :
        /\ Len(Curves[j].rec) >= 2
        /\ Curves[j].rec[1] > Curves[j].rec[2]
        /\ Curves[j].x[1] < Curves[j].x[2]
        /\ data.s[Curves[j].rec[1]] = data.s[Curves[j].rec[2]]

\* the distinct shot x-coordinates in ascending order
DistinctShotX == SortedSeq({ShotX(k) : k \in 1..Size(data)})

\* C6: in drawFirstPicks, the i-th distinct shot (ascending shot
\* x-coordinate, counted from 0) is drawn with colour i mod 10 of the
\* palette: the first 10 distinct shots get 10 different colours, the 11th
\* gets the colour of the 1st, and the curve and the zero-traveltime marker
\* of a shot have the same colour.
C6_ColourCycle ==
    InFP =>
        /\ Len(calls) % 2 = 0
        /\ \A m \in 1..(Len(calls) \div 2) :
            LET curve == calls[2 * m - 1]
                mark == calls[2 * m]
            IN /\ curve.kind = "curve" /\ mark.kind = "shotmark"
               /\ mark.x = <<DistinctShotX[m]>>
               /\ \A k \in 1..Len(curve.rec) : ShotX(curve.rec[k]) = DistinctShotX[m]
               /\ curve.color = (m - 1) % NColours
               /\ mark.color = curve.color
               /\ curve.color \in 0..(NColours - 1)
        /\ \A m, n \in 1..(Len(calls) \div 2) :
            calls[2 * m - 1].color = calls[2 * n - 1].color <=> (m - n) % NColours = 0

\* a finished call has drawn at least 11 shots, the 11th in the colour of
\* the 1st
C6_Witness ==
    /\ InFP
    /\ pc = "done"
    /\ Len(calls) >= 2 * (NColours + 1)
    /\ calls[2 * NColours + 1].color = calls[1].color
    /\ calls[2 * NColours + 2].color = calls[2].color

\* C10: in drawFirstPicks the curves partition the records by shot: every
\* record is a point of exactly one curve, there are as many curves and
\* shot markers as distinct shot indices, and records with different shot
\* indices are never on the same curve, also when two shot sensors have
\* the same x-coordinate.
C10_CurvesPartitionByShot ==
    (InFP /\ pc = "done") =>
        /\ Len(Curves) = Cardinality(Range(data.s))
        /\ Len(calls) = 2 * Cardinality(Range(data.s))
        /\ \A k \in 1..Size(data) :
            Cardinality({j \in 1..Len(Curves) : k \in Range(Curves[j].rec)}) = 1
        /\ \A j \in 1..Len(Curves) : \A a, b \in Range(Curves[j].rec) : data.s[a] = data.s[b]

\* the drawing calls are those of drawFirstPicks(ax, data, tt, plotva)
\* called without keyword arguments
SameAsDirectCall ==
    LET kw == StyleDefaults(NoKwargs)
    IN /\ Len(calls) = 2 * Len(loc.uns)
       /\ \A m \in 1..Len(loc.uns) :
            \E ii \in ArgSorts(Take(loc.gx, Find(loc.sx, loc.uns[m]))) :
                <<calls[2 * m - 1], calls[2 * m]>> =
                    CurveCalls(m - 1, loc.uns[m], loc.sx, loc.gx, loc.tt, ii, kw)

\* C8: the deprecated aliases forward without altering behaviour:
\* plotFirstPicks with its default arguments issues a deprecation notice and
\* then makes the drawing calls of drawFirstPicks(ax, data, tt, plotva),
\* with the same arguments, marker and line style included; _getOffset
\* returns shotReceiverDistances(data, full).
C8_AliasesForward ==
    /\ (fn = "plotFirstPicks" /\ pc = "done") =>
            (args.marker = "x-" =>
                /\ notices = <<"deprecated: use drawFirstPicks">>
                /\ SameAsDirectCall)
    /\ (fn = "_getOffset" /\ pc = "done") =>
            /\ notices = <<"deprecated: use shotReceiverDistances">>
            /\ ret = ShotReceiverDistances(data, args.full)

---------------------------------------------------------------------------
(* Properties of drawVA *)

\* the traveltime array the call uses: vals, or data('t')
UsedVals == ResolveVals(data, args.vals)

C4_VelocityIsOffsetOverTime ==
    (fn = "drawVA" /\ calls # <<>>) =>
        LET c == calls[1]
            offset == ShotReceiverDistances(data, TRUE)
        IN /\ Len(calls) = 1
           /\ Len(c.v) = Size(data) /\ Len(c.x) = Size(data) /\ Len(c.y) = Size(data)
           /\ \A k \in 1..Size(data) :
                UsedVals[k] >= Eps =>
                    /\ c.v[k][2] # 0
                    /\ c.v[k][1] * UsedVals[k] = offset[k] * c.v[k][2]
                    /\ IF args.pseudosection
                       THEN /\ c.x[k][2] # 0
                            /\ 2 * c.x[k][1] = (ReceiverX(k) + ShotX(k)) * c.x[k][2]
                            /\ c.y[k] = offset[k]
                       ELSE /\ c.x[k] = ReceiverX(k)
                            /\ c.y[k] = ShotX(k)

\* a pseudosection has been drawn of a record whose shot-receiver distance
\* is not its distance along x
C4_Witness ==
    /\ fn = "drawVA"
    /\ pc = "done"
    /\ args.pseudosection
    /\ Len(calls) = 1
    /\ \E k \in 1..Size(data) :
        /\ calls[1].y[k] = 5
        /\ Abs(ReceiverX(k) - ShotX(k)) = 3
        /\ calls[1].v[k] = <<5, UsedVals[k]>>

---------------------------------------------------------------------------
(* Properties of plotLines *)

PlEnded == fn = "plotLines" /\ pc \in {"done", "failed"}

\* the segment of the k-th pair of rows (rows 2k-2 and 2k-1, 0-based)
PairSegment(rows, k) ==
    [kind |-> "plot", x |-> <<rows[2 * k - 1][1], rows[2 * k][1]>>,
     y |-> <<rows[2 * k - 1][2], rows[2 * k][2]>>, fmt |-> "k-"]

\* the polyline of all rows
Polyline(rows) ==
    [kind |-> "plot", x |-> [k \in 1..Len(rows) |-> rows[k][1]],
     y |-> [k \in 1..Len(rows) |-> rows[k][2]], fmt |-> "k-"]

\* C5 as stated: with step=1 a file of n rows gives exactly one drawing call
\* with all n points in file order; with step=2 it gives exactly one 2-point
\* segment per pair of rows 2k, 2k+1, and for odd n no drawing call is made
\* for the leftover last row.
C5_AsStated ==
    PlEnded =>
        LET rows == args.rows
            n == Len(args.rows)
        IN /\ args.step = 1 => (pc = "done" /\ calls = <<Polyline(rows)>>)
           /\ args.step = 2 =>
                /\ pc = "done"
                /\ Len(calls) = n \div 2
                /\ \A k \in 1..(n \div 2) : calls[k] = PairSegment(rows, k)

\* C5, amended: for a file of n >= 2 rows, step=1 gives exactly one drawing
\* call with all n points in file order, and step=2 gives one drawing call
\* per chunk of two rows: a 2-point segment for every pair of rows 2k, 2k+1
\* and, for odd n, one more call that holds the leftover last row alone.
\* For a file of fewer than 2 rows no drawing call is made: the call fails
\* on indexing the one-dimensional array, except that step=2 on an empty
\* file returns without drawing.
C5_ChunkedSegments ==
    PlEnded =>
        LET rows == args.rows
            n == Len(args.rows)
        IN /\ (n >= 2 /\ args.step = 1) => (pc = "done" /\ calls = <<Polyline(rows)>>)
           /\ (n >= 2 /\ args.step = 2) =>
                /\ pc = "done"
                /\ Len(calls) = (n + 1) \div 2
                /\ \A k \in 1..(n \div 2) : calls[k] = PairSegment(rows, k)
                /\ n % 2 = 1 =>
                    /\ calls[(n + 1) \div 2].x = <<rows[n][1]>>
                    /\ calls[(n + 1) \div 2].y = <<rows[n][2]>>
           /\ (n < 2 /\ args.step \in {1, 2}) =>
                /\ calls = <<>>
                /\ pc = "failed" <=> ~(n = 0 /\ args.step = 2)

\* step=2 on the rows [[0,0],[1,1],[2,0]] has ended with two drawing calls,
\* the second for the leftover row
C5_Witness ==
    /\ fn = "plotLines"
    /\ pc = "done"
    /\ args.step = 2
    /\ args.rows = <<<<0, 0>>, <<1, 1>>, <<2, 0>>>>
    /\ Len(calls) = 2
    /\ calls[1].x = <<0, 1>> /\ calls[1].y = <<0, 1>>
    /\ calls[2].x = <<2>> /\ calls[2].y = <<0>>

====
